---------------------------- MODULE Spec2Model ----------------------------
(***************************************************************************)
(* Audio cleaning pricing calculator (src/src/main.js).                    *)
(*                                                                         *)
(* The module models the exchange-rate manager (fetchExchangeRate, its     *)
(* timer and the DOM fields it writes), the currency formatter and the     *)
(* pricing computation that every render goes through.                     *)
(*                                                                         *)
(* Number representation.  JavaScript numbers are modelled in fixed point: *)
(*   - money in USD is counted in units of 1/MoneyScale dollar,            *)
(*   - exchange rates are counted in units of 1/RateScale,                 *)
(*   - formula parameter A in units of 1/MoneyScale, B in units of         *)
(*     1/ParamBScale.                                                      *)
(* A formatted amount (the result of toFixed(2)) is counted in cents.      *)
(***************************************************************************)
EXTENDS Integers, Sequences, FiniteSets, TLC

(***************************************************************************)
(* Bounds of the model.                                                    *)
(***************************************************************************)
\* number of refresh cycles that can be in flight at the same time
MaxInFlight == 2
\* last value of the wall clock
MaxTime == 1

(***************************************************************************)
(* Fixed-point scales.                                                     *)
(***************************************************************************)
MoneyScale == 10000
RateScale == 1000
ParamBScale == 100000

(***************************************************************************)
(* CONFIGURATION & CONSTANTS (main.js 12-64)                               *)
(***************************************************************************)
API_ENDPOINTS == <<"api.exchangerate-api.com/v4/latest/USD", "open.er-api.com/v6/latest/USD">>
NumEndpoints == Len(API_ENDPOINTS)

REFRESH_INTERVAL == 1800000

\* 37 and 0.85, in units of 1/RateScale
FALLBACK_RATE == 37000
FALLBACK_EUR_RATE == 850

\* variant: defaults that are not those of the hyperbolic formula
OtherDefaults == [baseFee |-> 10, formula |-> "hyperbolic", paramA |-> 500, paramB |-> 100]

\* baseFee in dollars; paramA 0.03 in 1/MoneyScale; paramB 0.0005 in 1/ParamBScale
DEFAULT_PRICING == [baseFee |-> 10, formula |-> "hyperbolic", paramA |-> 300, paramB |-> 50]

\* JavaScript null (lastUpdateTime, refreshTimer); times are >= 0, timer handles > 0
Null == -1

(***************************************************************************)
(* State                                                                   *)
(***************************************************************************)
VARIABLES
    currentMinutes,      \* let currentMinutes = 500
    currentCurrency,     \* let currentCurrency = "UAH"
    currentFormula,      \* let currentFormula = "hyperbolic"
    baseFee,             \* let baseFee = 10 (dollars)
    paramA,              \* let paramA = 0.03
    paramB,              \* let paramB = 0.0005
    controls,            \* #paramASlider, #paramBSlider: [A, B : [min, max, value]]
    priceChart,          \* Chart.js instance: [created, curve, current]
    CURRENCY_RATE,       \* let CURRENCY_RATE = FALLBACK_RATE
    EUR_RATE,            \* let EUR_RATE = FALLBACK_EUR_RATE
    lastUpdateTime,      \* let lastUpdateTime = null
    refreshTimer,        \* let refreshTimer = null
    timers,              \* the browser's active interval timers: set of [id, interval]
    now,                 \* the wall clock read by new Date()
    cycles,              \* invocations of fetchExchangeRate, by slot
    loading,             \* refreshBtn.classList contains "loading"
    timestampDisplay,    \* text of #rateTimestamp
    exchangeRateDisplay, \* text of #exchangeRateDisplay
    dom,                 \* texts written by updateDisplay
    appReady,            \* DOMContentLoaded has run (listeners attached)
    last                 \* the step the exchange-rate manager or the clock took last

vars == <<currentMinutes, currentCurrency, currentFormula, baseFee, paramA, paramB,
          controls, priceChart, CURRENCY_RATE, EUR_RATE, lastUpdateTime, refreshTimer, timers,
          now, cycles, loading, timestampDisplay, exchangeRateDisplay, dom,
          appReady, last>>

configVars == <<currentMinutes, currentCurrency, currentFormula, baseFee, paramA, paramB>>
pricingVars == <<configVars, controls>>
rateVars == <<CURRENCY_RATE, EUR_RATE, lastUpdateTime, refreshTimer, timers>>

(***************************************************************************)
(* Arithmetic helpers                                                      *)
(***************************************************************************)
\* floor(a * b / d) for a, b >= 0 and d > 0, without an intermediate product
\* beyond 32 bits: a = q*d + r, so a*b/d = q*b + r*b/d
MulDiv(a, b, d) == (a \div d) * b + ((a % d) * b) \div d

\* Number.prototype.toFixed(2) of an amount counted in 1/MoneyScale: cents,
\* rounded half up
ToFixed2(v) == (v + (MoneyScale \div 200)) \div (MoneyScale \div 100)

\* toFixed(2) of an exchange rate counted in 1/RateScale: hundredths
RateToFixed2(r) == (r + (RateScale \div 200)) \div (RateScale \div 100)


Max(a, b) == IF a >= b THEN a ELSE b

Abs(a) == IF a >= 0 THEN a ELSE -a

(***************************************************************************)
(* Math.log and Math.pow on the sampled durations 50, 100, ..., 5000,      *)
(* in millionths; entry k is the value at x = 50 * k.                      *)
(***************************************************************************)
ChartStep == 50
ChartMax == 5000
MicroScale == 1000000

LnMicro ==
    <<3912023, 4605170, 5010635, 5298317, 5521461, 5703782, 5857933, 5991465, 6109248, 6214608,
      6309918, 6396930, 6476972, 6551080, 6620073, 6684612, 6745236, 6802395, 6856462, 6907755,
      6956545, 7003065, 7047517, 7090077, 7130899, 7170120, 7207860, 7244228, 7279319, 7313220,
      7346010, 7377759, 7408531, 7438384, 7467371, 7495542, 7522941, 7549609, 7575585, 7600902,
      7625595, 7649693, 7673223, 7696213, 7718685, 7740664, 7762171, 7783224, 7803843, 7824046,
      7843849, 7863267, 7882315, 7901007, 7919356, 7937375, 7955074, 7972466, 7989560, 8006368,
      8022897, 8039157, 8055158, 8070906, 8086410, 8101678, 8116716, 8131531, 8146130, 8160518,
      8174703, 8188689, 8202482, 8216088, 8229511, 8242756, 8255828, 8268732, 8281471, 8294050,
      8306472, 8318742, 8330864, 8342840, 8354674, 8366370, 8377931, 8389360, 8400659, 8411833,
      8422883, 8433812, 8444622, 8455318, 8465900, 8476371, 8486734, 8496990, 8507143, 8517193>>
PowMicro030 ==
    <<309249, 251189, 222419, 204029, 190817, 180661, 172496, 165723, 159969, 154992,
      150623, 146742, 143260, 140110, 137240, 134609, 132183, 129935, 127845, 125893,
      124063, 122344, 120723, 119192, 117741, 116364, 115054, 113805, 112613, 111474,
      110383, 109336, 108332, 107366, 106436, 105540, 104676, 103842, 103036, 102257,
      101502, 100771, 100062, 99374, 98706, 98058, 97427, 96814, 96217, 95635,
      95069, 94517, 93978, 93452, 92939, 92438, 91949, 91470, 91003, 90545,
      90097, 89659, 89229, 88809, 88396, 87993, 87596, 87208, 86827, 86453,
      86086, 85725, 85371, 85024, 84682, 84346, 84016, 83691, 83372, 83058,
      82749, 82445, 82146, 81851, 81561, 81275, 80994, 80717, 80444, 80174,
      79909, 79648, 79390, 79135, 78885, 78637, 78393, 78152, 77915, 77680>>
PowMicro060 ==
    <<95635, 63096, 49470, 41628, 36411, 32638, 29755, 27464, 25590, 24022,
      22687, 21533, 20524, 19631, 18835, 18119, 17472, 16883, 16344, 15849,
      15392, 14968, 14574, 14207, 13863, 13540, 13237, 12952, 12682, 12426,
      12184, 11954, 11736, 11527, 11329, 11139, 10957, 10783, 10616, 10456,
      10303, 10155, 10012, 9875, 9743, 9615, 9492, 9373, 9258, 9146,
      9038, 8933, 8832, 8733, 8638, 8545, 8455, 8367, 8281, 8198,
      8117, 8039, 7962, 7887, 7814, 7743, 7673, 7605, 7539, 7474,
      7411, 7349, 7288, 7229, 7171, 7114, 7059, 7004, 6951, 6899,
      6847, 6797, 6748, 6700, 6652, 6606, 6560, 6515, 6471, 6428,
      6385, 6344, 6303, 6262, 6223, 6184, 6145, 6108, 6071, 6034>>
PowMicro120 ==
    <<9146, 3981, 2447, 1733, 1326, 1065, 885, 754, 655, 577,
      515, 464, 421, 385, 355, 328, 305, 285, 267, 251,
      237, 224, 212, 202, 192, 183, 175, 168, 161, 154,
      148, 143, 138, 133, 128, 124, 120, 116, 113, 109,
      106, 103, 100, 98, 95, 92, 90, 88, 86, 84,
      82, 80, 78, 76, 75, 73, 71, 70, 69, 67,
      66, 65, 63, 62, 61, 60, 59, 58, 57, 56,
      55, 54, 53, 52, 51, 51, 50, 49, 48, 48,
      47, 46, 46, 45, 44, 44, 43, 42, 42, 41,
      41, 40, 40, 39, 39, 38, 38, 37, 37, 36>>

\* floor(m * v / (1000 * d)) for m, v >= 0, the product taken in two parts
\* (thousands of m and the rest) so that no intermediate exceeds 32 bits
MulThousandths(m, v, d) == ((m \div 1000) * v + ((m % 1000) * v) \div 1000) \div d

\* Math.log(x) in millionths
Ln(x) == LnMicro[x \div ChartStep]

\* Math.pow(x, -B) in millionths, B in 1/ParamBScale
PowNeg(x, B) ==
    CASE B = 30000 -> PowMicro030[x \div ChartStep]
      [] B = 60000 -> PowMicro060[x \div ChartStep]
      [] B = 120000 -> PowMicro120[x \div ChartStep]
      \* an exponent near 0 (at most 0.02): x^(-B) = 1 - B ln x to first order
      [] OTHER -> Max(0, MicroScale - MulThousandths(Ln(x), B, ParamBScale \div 1000))

\* lowest rate of the logarithmic formula: 0.005 in 1/MoneyScale
MIN_LOG_RATE == 50

(***************************************************************************)
(* FORMULAS (main.js 36-64): parameter bounds and the rate functions.      *)
(* A in 1/MoneyScale, B in 1/ParamBScale.                                  *)
(***************************************************************************)
FORMULAS ==
    [hyperbolic |->
        [A |-> [min |-> 50, max |-> 2000, default |-> 300],
         B |-> [min |-> 10, max |-> 200, default |-> 50]],
     power |->
        [A |-> [min |-> 5000, max |-> 50000, default |-> 20000],
         B |-> [min |-> 30000, max |-> 120000, default |-> 60000]],
     logarithmic |->
        [A |-> [min |-> 200, max |-> 1500, default |-> 800],
         B |-> [min |-> 200, max |-> 2000, default |-> 800]]]

\* A - B * Math.log(x) in 1/MoneyScale, A in 1/MoneyScale, B in 1/ParamBScale
LogCurve(x, A, B) ==
    A - MulThousandths(Ln(x), B, (MicroScale \div 1000) * (ParamBScale \div MoneyScale))

\* variant: the logarithmic formula without its lowest rate
CalculateNoFloor(f, x, A, B) ==
    CASE f = "hyperbolic" -> MulDiv(A, ParamBScale, ParamBScale + B * x)
      [] f = "power" ->
            IF x > 0 THEN MulThousandths(PowNeg(x, B), A, MicroScale \div 1000) ELSE A
      [] f = "logarithmic" -> IF x > 0 THEN LogCurve(x, A, B) ELSE A

\* FORMULAS[f].calculate(x, A, B), the rate per minute in 1/MoneyScale
Calculate(f, x, A, B) ==
    CASE f = "hyperbolic" -> MulDiv(A, ParamBScale, ParamBScale + B * x)
      [] f = "power" ->
            IF x > 0 THEN MulThousandths(PowNeg(x, B), A, MicroScale \div 1000) ELSE A
      [] f = "logarithmic" ->
            IF x > 0
            THEN Max(MIN_LOG_RATE,
                     A - MulThousandths(Ln(x), B,
                                        (MicroScale \div 1000) * (ParamBScale \div MoneyScale)))
            ELSE A

\* variant: the formula evaluated at every duration, 0 included
RateUnguarded(minutes, cfg) == Calculate(cfg.formula, minutes, cfg.paramA, cfg.paramB)

\* calculateRatePerMinute(minutes) under configuration cfg = [formula, paramA, paramB, baseFee]
calculateRatePerMinute(minutes, cfg) ==
    IF minutes = 0 THEN 0 ELSE Calculate(cfg.formula, minutes, cfg.paramA, cfg.paramB)

\* variant: the base fee is charged per started block of 1000 minutes
FeePerBlock(minutes, cfg) ==
    LET rate == IF minutes = 0 THEN 0
                ELSE Calculate(cfg.formula, minutes, cfg.paramA, cfg.paramB)
        processingCost == minutes * rate
        total == cfg.baseFee * MoneyScale * (minutes \div 1000) + processingCost
    IN  [total |-> total,
         processingCost |-> processingCost,
         rate |-> rate,
         avgPerMinute |-> IF minutes > 0 THEN total \div minutes ELSE 0]

\* calculatePrice(minutes): amounts in 1/MoneyScale
calculatePrice(minutes, cfg) ==
    LET rate == calculateRatePerMinute(minutes, cfg)
        processingCost == minutes * rate
        total == cfg.baseFee * MoneyScale + processingCost
    IN  [total |-> total,
         processingCost |-> processingCost,
         rate |-> rate,
         avgPerMinute |-> IF minutes > 0 THEN total \div minutes ELSE 0]

(***************************************************************************)
(* formatCurrency (main.js 140-148).  The result is the currency sign, the *)
(* amount in cents after toFixed(2), and whether the number is finite (a   *)
(* division by a zero rate yields Infinity).                               *)
(***************************************************************************)
Sign(a) == IF a < 0 THEN -1 ELSE 1

formatCurrency(value, currency, uahRate, eurRate) ==
    CASE currency = "UAH" ->
            [sym |-> "UAH", finite |-> TRUE,
             cents |-> Sign(uahRate) * ToFixed2(MulDiv(value, Abs(uahRate), RateScale))]
      [] currency = "EUR" ->
            IF eurRate = 0
            THEN [sym |-> "EUR", finite |-> FALSE, cents |-> 0]
            ELSE [sym |-> "EUR", finite |-> TRUE,
                  cents |-> Sign(eurRate) * ToFixed2(MulDiv(value, RateScale, Abs(eurRate)))]
      [] OTHER -> [sym |-> "USD", finite |-> TRUE, cents |-> ToFixed2(value)]

\* the pricing configuration read by calculatePrice
Config(f, a, b, fee) == [formula |-> f, paramA |-> a, paramB |-> b, baseFee |-> fee]

\* the texts updateDisplay writes (main.js 190-205)
Rendered(minutes, currency, cfg, uahRate, eurRate) ==
    LET p == calculatePrice(minutes, cfg)
        fmt(v) == formatCurrency(v, currency, uahRate, eurRate)
    IN  [minutes |-> minutes,
         total |-> fmt(p.total),
         baseFee |-> fmt(cfg.baseFee * MoneyScale),
         processingCost |-> fmt(p.processingCost),
         rate |-> fmt(p.rate),
         avg |-> IF minutes > 0 THEN fmt(p.avgPerMinute) ELSE fmt(0),
         formula |-> cfg.formula]

\* the static markup before the first render
Unrendered ==
    LET none == [sym |-> "", finite |-> TRUE, cents |-> 0]
    IN  [minutes |-> 0, total |-> none, baseFee |-> none, processingCost |-> none,
         rate |-> none, avg |-> none, formula |-> ""]

(***************************************************************************)
(* Chart (main.js 271-469)                                                 *)
(***************************************************************************)
\* variant: the loop stops before the last duration (i < 5000)
CurvePointsExclusive(cfg) ==
    [k \in 1..(ChartMax \div ChartStep) |->
        [x |-> (k - 1) * ChartStep, y |-> calculatePrice((k - 1) * ChartStep, cfg).total]]

\* the loop "for (let i = 0; i <= 5000; i += 50)" of initChart and updateChartData
CurvePoints(cfg) ==
    [k \in 1..(ChartMax \div ChartStep + 1) |->
        [x |-> (k - 1) * ChartStep, y |-> calculatePrice((k - 1) * ChartStep, cfg).total]]

CurrentPoint(minutes, cfg) == <<[x |-> minutes, y |-> calculatePrice(minutes, cfg).total]>>

NoChart == [created |-> FALSE, curve |-> <<>>, current |-> <<>>]

\* initChart: new Chart(...) with both datasets
initChart(minutes, cfg) ==
    [created |-> TRUE, curve |-> CurvePoints(cfg), current |-> CurrentPoint(minutes, cfg)]

\* variant: the current-position dataset is left as it is
updateChartSkip(chart, minutes, cfg) == chart

\* updateChart: only the current-position dataset, and only if the chart exists
updateChart(chart, minutes, cfg) ==
    IF chart.created THEN [chart EXCEPT !.current = CurrentPoint(minutes, cfg)] ELSE chart

\* updateChartData: both datasets, and only if the chart exists
updateChartData(chart, minutes, cfg) ==
    IF chart.created
    THEN [chart EXCEPT !.curve = CurvePoints(cfg), !.current = CurrentPoint(minutes, cfg)]
    ELSE chart

\* safeUpdateChart(updateData)
safeUpdateChart(chart, updateData, minutes, cfg) ==
    IF updateData THEN updateChartData(chart, minutes, cfg) ELSE updateChart(chart, minutes, cfg)

(***************************************************************************)
(* Formula controls (main.js 214-239): the two parameter sliders carry the *)
(* range of the formula and the value of the parameter.                    *)
(***************************************************************************)
\* the sliders as the static markup leaves them, before updateFormulaControls
NoControls ==
    [A |-> [min |-> 0, max |-> 0, value |-> 0], B |-> [min |-> 0, max |-> 0, value |-> 0]]

\* variant: the ranges of the sliders are left as they are
KeepSliderRanges(ctl, f, a, b) ==
    [A |-> [ctl.A EXCEPT !.value = a], B |-> [ctl.B EXCEPT !.value = b]]

\* updateFormulaControls() with currentFormula = f, paramA = a, paramB = b
updateFormulaControls(ctl, f, a, b) ==
    [A |-> [min |-> FORMULAS[f].A.min, max |-> FORMULAS[f].A.max, value |-> a],
     B |-> [min |-> FORMULAS[f].B.min, max |-> FORMULAS[f].B.max, value |-> b]]

(***************************************************************************)
(* CURRENCY MANAGEMENT: fetchExchangeRate (main.js 478-536)                *)
(***************************************************************************)
Slots == 1..MaxInFlight
Endpoints == 1..NumEndpoints
InFlight == {"fetch", "json"}
Finished == {"success", "fallback"}

\* A response body.  kind "unparsable": response.json() rejects; "norates":
\* the parsed value has no rates object; "rates": it has one, a function
\* from the keys present to numbers (in 1/RateScale).
RateKeys == {"UAH", "uah", "EUR", "eur"}
KeyValues ==
    [UAH |-> {0, -1000, 40000},
     uah |-> {41254},
     EUR |-> {0, -100, 920},
     eur |-> {923}]
AllRateValues == UNION {KeyValues[k] : k \in RateKeys}
\* the rates objects enumerated: those with at most MaxKeys of the four keys
MaxKeys == 2
RatesObjects ==
    UNION {{r \in [K -> AllRateValues] : \A k \in K : r[k] \in KeyValues[k]} :
           K \in {K \in SUBSET RateKeys : Cardinality(K) <= MaxKeys}}
Bodies ==
    {[kind |-> "unparsable", rates |-> <<>>], [kind |-> "norates", rates |-> <<>>]}
    \cup {[kind |-> "rates", rates |-> r] : r \in RatesObjects}

\* An optional JavaScript number: {} is undefined, {v} is the number v.
\* data.rates?.K
Field(body, k) ==
    IF body.kind = "rates" /\ k \in DOMAIN body.rates THEN {body.rates[k]} ELSE {}

\* JavaScript truthiness of an optional number
Truthy(v) == v # {} /\ v # {0}

\* a || b
OrElse(a, b) == IF Truthy(a) THEN a ELSE b

\* const uahRate = data.rates?.UAH || data.rates?.uah   (main.js 492)
UahRateOf(body) == OrElse(Field(body, "UAH"), Field(body, "uah"))

\* const eurRate = data.rates?.EUR || data.rates?.eur   (main.js 493)
EurRateOf(body) == OrElse(Field(body, "EUR"), Field(body, "eur"))

\* the number in a defined optional
ValueOf(v) == CHOOSE x \in v : TRUE

\* variant: the test "rate > 0" left out
UsableTruthy(v) == Truthy(v)

\* rate && rate > 0   (main.js 495, 499, 503)
Usable(v) == Truthy(v) /\ ValueOf(v) > 0

\* variant: a rate that is not usable resets the stored one
StoreOrReset(current, v) == IF Usable(v) THEN ValueOf(v) ELSE FALLBACK_RATE

\* if (rate && rate > 0) { RATE = rate }   (main.js 495-501)
StoreRate(current, v) == IF Usable(v) THEN ValueOf(v) ELSE current

\* (uahRate && uahRate > 0) || (eurRate && eurRate > 0)   (main.js 503)
IsSuccess(body) ==
    body.kind # "unparsable" /\ (Usable(UahRateOf(body)) \/ Usable(EurRateOf(body)))

\* what the success branch reads from a body: the usable rates among the two
Reading(body) ==
    [uahRate |-> IF Usable(UahRateOf(body)) THEN UahRateOf(body) ELSE {},
     eurRate |-> IF Usable(EurRateOf(body)) THEN EurRateOf(body) ELSE {}]

\* the readings of the bodies that make an endpoint succeed
SuccessReadings == {Reading(b) : b \in {b \in Bodies : IsSuccess(b)}}

\* the ways one endpoint fails: a rejected fetch, a non-ok status (both while
\* awaiting fetch), and a body that does not parse or carries no usable rate
\* (both while awaiting response.json(); "norates": neither rate is there,
\* "nonpositive": a rate is there and none is above zero)
FailureOf(body) ==
    IF body.kind # "rates" THEN body.kind
    ELSE IF UahRateOf(body) = {} /\ EurRateOf(body) = {} THEN "norates" ELSE "nonpositive"

FailuresAt(status) ==
    IF status = "fetch"
    THEN {"reject", "notok"}
    ELSE {FailureOf(b) : b \in {b \in Bodies : ~IsSuccess(b)}}

\* the text of #exchangeRateDisplay: both rates after toFixed(2)   (main.js 506, 530)
RateText(uah, eur) == [uah |-> RateToFixed2(uah), eur |-> RateToFixed2(eur)]

\* clearInterval(handle)
ClearInterval(ts, handle) == {t \in ts : t.id # handle}

\* a handle the browser has not handed out to a live timer; handles are
\* positive and the one being replaced is not given again
NewHandle(ts, old) ==
    CHOOSE h \in 1..(Cardinality(ts) + 2) :
        /\ h # old
        /\ \A t \in ts : t.id # h
        /\ \A g \in 1..(h - 1) : g = old \/ \E t \in ts : t.id = g

\* variant: the interval taken in seconds
SetIntervalSeconds(ts, h, interval) == ts \cup {[id |-> h, interval |-> interval \div 1000]}

\* setInterval(fetchExchangeRate, interval) returning handle h
SetInterval(ts, h, interval) == ts \cup {[id |-> h, interval |-> interval]}

\* variant: the previous timer is not cleared
RearmNoClear(ts, handle) == SetInterval(ts, NewHandle(ts, handle), REFRESH_INTERVAL)

\* if (refreshTimer) clearInterval(refreshTimer);
\* refreshTimer = setInterval(fetchExchangeRate, REFRESH_INTERVAL)   (main.js 517-518)
Rearm(ts, handle) ==
    LET kept == IF handle # Null THEN ClearInterval(ts, handle) ELSE ts
    IN  SetInterval(kept, NewHandle(ts, handle), REFRESH_INTERVAL)

\* variants: the fallback branch cancels the timers; the fallback branch
\* stops the timer from firing again
CancelTimers(ts) == {}
DisarmTimers(ts) == {[t EXCEPT !.interval = 0] : t \in ts}

\* what the fallback branch leaves of the timers: it touches none   (main.js 527-535)
TimersAfterFallback(ts) == ts

\* variants: the two constants swapped; the current rates kept
SwappedFallbackRates == [uah |-> FALLBACK_EUR_RATE, eur |-> FALLBACK_RATE]
KeepLastRates == [uah |-> CURRENCY_RATE, eur |-> EUR_RATE]

\* the rates the fallback branch stores   (main.js 528-529)
FallbackRates == [uah |-> FALLBACK_RATE, eur |-> FALLBACK_EUR_RATE]

\* variant: every remaining endpoint requested at once
IssueAll(log, k) == log \o [i \in 1..(NumEndpoints - k + 1) |-> k + i - 1]

\* const response = await fetch(endpoint): one request per loop iteration   (main.js 488)
IssueRequest(log, k) == Append(log, k)

\* One invocation of fetchExchangeRate: where it is (status, idx: the
\* endpoint of the current loop iteration), the endpoints it has requested
\* and their outcomes, in order, and whether it is the startup refresh.
IdleCycle ==
    [status |-> "idle", idx |-> 0, requested |-> <<>>, outcomes |-> <<>>,
     startup |-> FALSE]

\* The record of the step taken last: its kind, the invocation that took it,
\* whether that is the startup refresh, why the endpoint failed (a failing
\* step), whether the fallback branch found rates other than the fallback
\* constants, and the usable rates read from the body (the storing step).
Step(kind, c) ==
    [kind |-> kind, cycle |-> c,
     startup |-> IF c \in Slots THEN cycles[c].startup ELSE FALSE,
     why |-> "", live |-> FALSE, uahRate |-> {}, eurRate |-> {}]
Failed(kind, why, c) ==
    [Step(kind, c) EXCEPT
        !.why = why,
        !.live = kind = "fallback"
                 /\ (CURRENCY_RATE # FALLBACK_RATE \/ EUR_RATE # FALLBACK_EUR_RATE)]
Stored(reading, c) ==
    [Step("success", c) EXCEPT !.uahRate = reading.uahRate, !.eurRate = reading.eurRate]

\* the slot a new invocation runs in
FreeSlots == {c \in Slots : cycles[c].status \notin InFlight}
NewSlot == CHOOSE c \in FreeSlots : \A d \in FreeSlots : c <= d

\* variant: a new invocation aborts the ones in flight
AbortOthers(cs) ==
    [d \in DOMAIN cs |-> IF cs[d].status \in InFlight THEN IdleCycle ELSE cs[d]]

\* the cycles a new invocation leaves running: all of them   (main.js 478-486)
Survivors(cs) == cs

\* fetchExchangeRate up to its first await (main.js 479-488): the button
\* gets the loading class, the timestamp reads "updating", the first
\* endpoint is requested.
StartCycle(trigger) ==
    /\ FreeSlots # {}
    /\ LET c == NewSlot
           kept == Survivors(cycles)
       IN  /\ cycles' =
                [d \in Slots |->
                    IF d = c
                    THEN [status |-> "fetch", idx |-> 1,
                          requested |-> IssueRequest(<<>>, 1), outcomes |-> <<>>,
                          startup |-> trigger = "startup"]
                    ELSE kept[d]]
           /\ last' = [Step(trigger, c) EXCEPT !.startup = trigger = "startup"]
    /\ loading' = TRUE
    /\ timestampDisplay' = [text |-> "updating", time |-> Null]
    /\ UNCHANGED <<CURRENCY_RATE, EUR_RATE, lastUpdateTime, refreshTimer, timers,
                   exchangeRateDisplay, now>>

\* the configuration calculatePrice reads in the current state
CurrentConfig == Config(currentFormula, paramA, paramB, baseFee)

\* variant: the texts are rendered with the rates read before the cycle
\* stored the new ones
UpdateDisplayStale(uah, eur) ==
    /\ dom' = Rendered(currentMinutes, currentCurrency, CurrentConfig, CURRENCY_RATE, EUR_RATE)
    /\ priceChart' = safeUpdateChart(priceChart, FALSE, currentMinutes, CurrentConfig)

\* updateDisplay() with the rates uah, eur in effect: the texts and the
\* chart's current position (safeUpdateChart())   (main.js 190-209)
UpdateDisplay(uah, eur) ==
    /\ dom' = Rendered(currentMinutes, currentCurrency, CurrentConfig, uah, eur)
    /\ priceChart' = safeUpdateChart(priceChart, FALSE, currentMinutes, CurrentConfig)

\* DOMContentLoaded: initEventListeners(); initApp()   (main.js 666-674, 706-711)
\* initChart, updateFormulaControls, updateDisplay, then the startup refresh.
InitApp ==
    /\ ~appReady
    /\ appReady' = TRUE
    /\ priceChart' = initChart(currentMinutes, CurrentConfig)
    /\ dom' = Rendered(currentMinutes, currentCurrency, CurrentConfig, CURRENCY_RATE, EUR_RATE)
    /\ controls' = updateFormulaControls(controls, currentFormula, paramA, paramB)
    /\ StartCycle("startup")
    /\ UNCHANGED configVars

\* click on #refreshRateBtn   (main.js 553-555)
ClickRefresh ==
    /\ appReady
    /\ StartCycle("click")
    /\ UNCHANGED <<pricingVars, priceChart, dom, appReady>>

\* an interval timer fires and calls fetchExchangeRate; it stays armed   (main.js 518)
TimerTick ==
    /\ \E t \in timers : t.interval = REFRESH_INTERVAL
    /\ StartCycle("tick")
    /\ UNCHANGED <<pricingVars, priceChart, dom, appReady>>

\* time passes
AdvanceClock ==
    /\ now < MaxTime
    /\ now' = now + 1
    /\ last' = Step("clock", 0)
    /\ UNCHANGED <<pricingVars, priceChart, CURRENCY_RATE, EUR_RATE, lastUpdateTime,
                   refreshTimer, timers, cycles, loading, timestampDisplay,
                   exchangeRateDisplay, dom, appReady>>

\* fetch(endpoint) resolves with response.ok: the cycle awaits response.json()
\* (main.js 488-491)
FetchOk(c) ==
    /\ cycles[c].status = "fetch"
    /\ cycles' = [cycles EXCEPT ![c].status = "json"]
    /\ last' = Step("fetchOk", c)
    /\ UNCHANGED <<pricingVars, priceChart, CURRENCY_RATE, EUR_RATE, lastUpdateTime,
                   refreshTimer, timers, now, loading, timestampDisplay,
                   exchangeRateDisplay, dom, appReady>>

\* variant: a failing endpoint that is not the last one arms the timer
EndpointFailedRearms(c) ==
    /\ cycles[c].status \in InFlight
    /\ cycles[c].idx < NumEndpoints
    /\ \E why \in FailuresAt(cycles[c].status) : last' = Failed("endpointFailed", why, c)
    /\ cycles' = [cycles EXCEPT ![c].status = "fetch",
                                ![c].idx = @ + 1,
                                ![c].outcomes = Append(@, "fail"),
                                ![c].requested = IssueRequest(@, cycles[c].idx + 1)]
    /\ timers' = Rearm(timers, refreshTimer)
    /\ refreshTimer' = NewHandle(timers, refreshTimer)
    /\ UNCHANGED <<pricingVars, priceChart, CURRENCY_RATE, EUR_RATE, lastUpdateTime,
                   now, loading, timestampDisplay, exchangeRateDisplay, dom, appReady>>

\* variant: the error of a failing endpoint leaves fetchExchangeRate, which
\* ends there
EndpointThrows(c) ==
    /\ cycles[c].status \in InFlight
    /\ cycles[c].idx < NumEndpoints
    /\ \E why \in FailuresAt(cycles[c].status) : last' = Failed("endpointFailed", why, c)
    /\ cycles' = [cycles EXCEPT ![c] = IdleCycle]
    /\ UNCHANGED <<pricingVars, priceChart, CURRENCY_RATE, EUR_RATE, lastUpdateTime,
                   refreshTimer, timers, now, loading, timestampDisplay,
                   exchangeRateDisplay, dom, appReady>>

\* An endpoint that is not the last one fails (rejected fetch, non-ok
\* status, unparsable body, no usable rate): the error is caught or the
\* iteration ends, and the loop requests the next endpoint   (main.js 486-525)
EndpointFailed(c) ==
    /\ cycles[c].status \in InFlight
    /\ cycles[c].idx < NumEndpoints
    /\ \E why \in FailuresAt(cycles[c].status) : last' = Failed("endpointFailed", why, c)
    /\ cycles' = [cycles EXCEPT ![c].status = "fetch",
                                ![c].idx = @ + 1,
                                ![c].outcomes = Append(@, "fail"),
                                ![c].requested = IssueRequest(@, cycles[c].idx + 1)]
    /\ UNCHANGED <<pricingVars, priceChart, CURRENCY_RATE, EUR_RATE, lastUpdateTime,
                   refreshTimer, timers, now, loading, timestampDisplay,
                   exchangeRateDisplay, dom, appReady>>

\* The last endpoint fails: the loop ends and the fallback branch runs
\* (main.js 527-535)
AllFailed(c) ==
    /\ cycles[c].status \in InFlight
    /\ cycles[c].idx = NumEndpoints
    /\ \E why \in FailuresAt(cycles[c].status) : last' = Failed("fallback", why, c)
    /\ cycles' = [cycles EXCEPT ![c].status = "fallback",
                                ![c].startup = FALSE,
                                ![c].outcomes = Append(@, "fail")]
    /\ CURRENCY_RATE' = FallbackRates.uah
    /\ EUR_RATE' = FallbackRates.eur
    /\ exchangeRateDisplay' = RateText(CURRENCY_RATE', EUR_RATE')
    /\ timestampDisplay' = [text |-> "fallback", time |-> Null]
    /\ loading' = FALSE
    /\ UpdateDisplay(CURRENCY_RATE', EUR_RATE')
    /\ timers' = TimersAfterFallback(timers)
    /\ UNCHANGED <<pricingVars, lastUpdateTime, refreshTimer, now, appReady>>

\* response.json() resolves with a body carrying at least one usable rate:
\* the rates present are stored and the success branch runs   (main.js 491-521)
RateReceived(c) ==
    /\ cycles[c].status = "json"
    /\ \E reading \in SuccessReadings :
          /\ CURRENCY_RATE' = StoreRate(CURRENCY_RATE, reading.uahRate)
          /\ EUR_RATE' = StoreRate(EUR_RATE, reading.eurRate)
          /\ last' = Stored(reading, c)
    /\ cycles' = [cycles EXCEPT ![c].status = "success",
                                ![c].startup = FALSE,
                                ![c].outcomes = Append(@, "success")]
    /\ lastUpdateTime' = now
    /\ exchangeRateDisplay' = RateText(CURRENCY_RATE', EUR_RATE')
    /\ timestampDisplay' = [text |-> "lastUpdate", time |-> lastUpdateTime']
    /\ loading' = FALSE
    /\ UpdateDisplay(CURRENCY_RATE', EUR_RATE')
    /\ timers' = Rearm(timers, refreshTimer)
    /\ refreshTimer' = NewHandle(timers, refreshTimer)
    /\ UNCHANGED <<pricingVars, now, appReady>>

\* click on a currency button   (main.js 619-628)
SelectCurrency(cur) ==
    /\ appReady
    /\ cur # currentCurrency
    /\ currentCurrency' = cur
    /\ dom' = Rendered(currentMinutes, cur, CurrentConfig, CURRENCY_RATE, EUR_RATE)
    /\ priceChart' = safeUpdateChart(priceChart, FALSE, currentMinutes, CurrentConfig)
    /\ UNCHANGED <<currentMinutes, currentFormula, baseFee, paramA, paramB, controls,
                   CURRENCY_RATE, EUR_RATE, lastUpdateTime, refreshTimer, timers, now,
                   cycles, loading, timestampDisplay, exchangeRateDisplay, appReady, last>>

Currencies == {"UAH", "EUR", "USD"}

(***************************************************************************)
(* USER INTERFACE: the listeners of initEventListeners (main.js 545-629)   *)
(* and the theme listener (main.js 679-690).  Each listener assigns the    *)
(* state it is about and then renders.                                     *)
(***************************************************************************)
\* the values the duration slider and the preset buttons deliver
DurationInputs == {0, 5000}
\* the values the base-fee slider delivers
BaseFeeInputs == {0}
\* the values a parameter slider delivers: the two ends of its range
SliderValues(slider) == {slider.min, slider.max}

\* variant: the parameters are left as they are
KeepParams(f) == [A |-> paramA, B |-> paramB]

\* formula.params.A.default, formula.params.B.default of FORMULAS[f]   (main.js 569-571)
FormulaDefaults(f) == [A |-> FORMULAS[f].A.default, B |-> FORMULAS[f].B.default]

\* the texts updateDisplay() writes for the given duration, currency and
\* configuration, with the rates in effect   (main.js 190-205)
DisplayOf(minutes, currency, cfg) ==
    Rendered(minutes, currency, cfg, CURRENCY_RATE, EUR_RATE)

\* slider input, preset button click: currentMinutes = parseInt(...);
\* updateDisplay()   (main.js 546-563)
DurationInput(m) ==
    /\ appReady
    /\ currentMinutes' = m
    /\ dom' = DisplayOf(m, currentCurrency, CurrentConfig)
    /\ priceChart' = safeUpdateChart(priceChart, FALSE, m, CurrentConfig)
    /\ UNCHANGED <<currentCurrency, currentFormula, baseFee, paramA, paramB, controls,
                   CURRENCY_RATE, EUR_RATE, lastUpdateTime, refreshTimer, timers, now,
                   cycles, loading, timestampDisplay, exchangeRateDisplay, appReady, last>>

\* change of #formulaType: the formula and its default parameters, then
\* updateFormulaControls(), updateDisplay(), safeUpdateChart(true)   (main.js 567-575)
FormulaChange(f) ==
    /\ appReady
    /\ currentFormula' = f
    /\ paramA' = FormulaDefaults(f).A
    /\ paramB' = FormulaDefaults(f).B
    /\ LET cfg == Config(f, paramA', paramB', baseFee)
       IN  /\ controls' = updateFormulaControls(controls, f, paramA', paramB')
           /\ dom' = DisplayOf(currentMinutes, currentCurrency, cfg)
           /\ priceChart' =
                safeUpdateChart(safeUpdateChart(priceChart, FALSE, currentMinutes, cfg),
                                TRUE, currentMinutes, cfg)
    /\ UNCHANGED <<currentMinutes, currentCurrency, baseFee,
                   CURRENCY_RATE, EUR_RATE, lastUpdateTime, refreshTimer, timers, now,
                   cycles, loading, timestampDisplay, exchangeRateDisplay, appReady, last>>

\* input of #baseFeeSlider: baseFee = parseInt(...); updateDisplay()   (main.js 578-582)
BaseFeeInput(fee) ==
    /\ appReady
    /\ baseFee' = fee
    /\ LET cfg == Config(currentFormula, paramA, paramB, fee)
       IN  /\ dom' = DisplayOf(currentMinutes, currentCurrency, cfg)
           /\ priceChart' = safeUpdateChart(priceChart, FALSE, currentMinutes, cfg)
    /\ UNCHANGED <<currentMinutes, currentCurrency, currentFormula, paramA, paramB, controls,
                   CURRENCY_RATE, EUR_RATE, lastUpdateTime, refreshTimer, timers, now,
                   cycles, loading, timestampDisplay, exchangeRateDisplay, appReady, last>>

\* input of #paramASlider: paramA = parseFloat(...); updateDisplay();
\* safeUpdateChart(true)   (main.js 585-593)
ParamAInput(v) ==
    /\ appReady
    /\ v \in SliderValues(controls.A)
    /\ paramA' = v
    /\ controls' = [controls EXCEPT !.A.value = v]
    /\ LET cfg == Config(currentFormula, v, paramB, baseFee)
       IN  /\ dom' = DisplayOf(currentMinutes, currentCurrency, cfg)
           /\ priceChart' =
                safeUpdateChart(safeUpdateChart(priceChart, FALSE, currentMinutes, cfg),
                                TRUE, currentMinutes, cfg)
    /\ UNCHANGED <<currentMinutes, currentCurrency, currentFormula, baseFee, paramB,
                   CURRENCY_RATE, EUR_RATE, lastUpdateTime, refreshTimer, timers, now,
                   cycles, loading, timestampDisplay, exchangeRateDisplay, appReady, last>>

\* input of #paramBSlider   (main.js 595-600)
ParamBInput(v) ==
    /\ appReady
    /\ v \in SliderValues(controls.B)
    /\ paramB' = v
    /\ controls' = [controls EXCEPT !.B.value = v]
    /\ LET cfg == Config(currentFormula, paramA, v, baseFee)
       IN  /\ dom' = DisplayOf(currentMinutes, currentCurrency, cfg)
           /\ priceChart' =
                safeUpdateChart(safeUpdateChart(priceChart, FALSE, currentMinutes, cfg),
                                TRUE, currentMinutes, cfg)
    /\ UNCHANGED <<currentMinutes, currentCurrency, currentFormula, baseFee, paramA,
                   CURRENCY_RATE, EUR_RATE, lastUpdateTime, refreshTimer, timers, now,
                   cycles, loading, timestampDisplay, exchangeRateDisplay, appReady, last>>

\* variant: the reset also puts the exchange rates back to the constants
ResetClickRates ==
    /\ appReady
    /\ baseFee' = DEFAULT_PRICING.baseFee
    /\ currentFormula' = DEFAULT_PRICING.formula
    /\ paramA' = DEFAULT_PRICING.paramA
    /\ paramB' = DEFAULT_PRICING.paramB
    /\ CURRENCY_RATE' = FALLBACK_RATE
    /\ EUR_RATE' = FALLBACK_EUR_RATE
    /\ lastUpdateTime' = Null
    /\ LET cfg == Config(currentFormula', paramA', paramB', baseFee')
       IN  /\ controls' = updateFormulaControls(controls, currentFormula', paramA', paramB')
           /\ dom' = Rendered(currentMinutes, currentCurrency, cfg, CURRENCY_RATE', EUR_RATE')
           /\ priceChart' =
                safeUpdateChart(safeUpdateChart(priceChart, FALSE, currentMinutes, cfg),
                                TRUE, currentMinutes, cfg)
    /\ UNCHANGED <<currentMinutes, currentCurrency, refreshTimer, timers, now,
                   cycles, loading, timestampDisplay, exchangeRateDisplay, appReady, last>>

\* click on #resetBtn: the configuration of DEFAULT_PRICING, then
\* updateFormulaControls(), updateDisplay(), safeUpdateChart(true)   (main.js 603-616)
ResetClick ==
    /\ appReady
    /\ baseFee' = DEFAULT_PRICING.baseFee
    /\ currentFormula' = DEFAULT_PRICING.formula
    /\ paramA' = DEFAULT_PRICING.paramA
    /\ paramB' = DEFAULT_PRICING.paramB
    /\ LET cfg == Config(currentFormula', paramA', paramB', baseFee')
       IN  /\ controls' = updateFormulaControls(controls, currentFormula', paramA', paramB')
           /\ dom' = DisplayOf(currentMinutes, currentCurrency, cfg)
           /\ priceChart' =
                safeUpdateChart(safeUpdateChart(priceChart, FALSE, currentMinutes, cfg),
                                TRUE, currentMinutes, cfg)
    /\ UNCHANGED <<currentMinutes, currentCurrency,
                   CURRENCY_RATE, EUR_RATE, lastUpdateTime, refreshTimer, timers, now,
                   cycles, loading, timestampDisplay, exchangeRateDisplay, appReady, last>>

\* change of the colour scheme: the chart is destroyed and created anew
\* (main.js 679-690)
ThemeChange ==
    /\ appReady
    /\ priceChart.created
    /\ priceChart' = initChart(currentMinutes, CurrentConfig)
    /\ UNCHANGED <<pricingVars, CURRENCY_RATE, EUR_RATE, lastUpdateTime, refreshTimer,
                   timers, now, cycles, loading, timestampDisplay, exchangeRateDisplay,
                   dom, appReady, last>>

(***************************************************************************)
(* The state after the module is loaded (main.js 70-101), before           *)
(* DOMContentLoaded.                                                       *)
(***************************************************************************)
Init ==
    /\ currentMinutes = 500
    /\ currentCurrency = "UAH"
    /\ currentFormula = "hyperbolic"
    /\ baseFee = 10
    /\ paramA = 300
    /\ paramB = 50
    /\ controls = NoControls
    /\ priceChart = NoChart
    /\ CURRENCY_RATE = FALLBACK_RATE
    /\ EUR_RATE = FALLBACK_EUR_RATE
    /\ lastUpdateTime = Null
    /\ refreshTimer = Null
    /\ timers = {}
    /\ now = 0
    /\ cycles = [c \in Slots |-> IdleCycle]
    /\ loading = FALSE
    /\ timestampDisplay = [text |-> "", time |-> Null]
    /\ exchangeRateDisplay = [uah |-> 0, eur |-> 0]
    /\ dom = Unrendered
    /\ appReady = FALSE
    /\ last = Step("load", 0)

\* the exchange-rate manager: startup, manual refresh, timer, clock, network
Next ==
    \/ InitApp
    \/ ClickRefresh
    \/ TimerTick
    \/ AdvanceClock
    \/ \E c \in Slots : FetchOk(c)
    \/ \E c \in Slots : EndpointFailed(c)
    \/ \E c \in Slots : AllFailed(c)
    \/ \E c \in Slots : RateReceived(c)

Spec == Init /\ [][Next]_vars

(***************************************************************************)
(* Fairness: every request eventually resolves (the network answers or     *)
(* errors), and an armed interval timer keeps firing.  A manual refresh    *)
(* and the passing of time are not forced.                                 *)
(***************************************************************************)
Resolve(c) == FetchOk(c) \/ EndpointFailed(c) \/ AllFailed(c) \/ RateReceived(c)

Fairness ==
    /\ WF_vars(InitApp)
    /\ \A c \in Slots : WF_vars(Resolve(c))
    /\ SF_vars(TimerTick)

LiveSpec == Spec /\ Fairness

(***************************************************************************)
(* The calculator in use: the listeners of the page, while the startup     *)
(* refresh is waiting for the network.                                     *)
(***************************************************************************)
UiNext ==
    \/ InitApp
    \/ \E m \in DurationInputs : DurationInput(m)
    \/ \E f \in DOMAIN FORMULAS : FormulaChange(f)
    \/ \E fee \in BaseFeeInputs : BaseFeeInput(fee)
    \/ \E v \in SliderValues(controls.A) : ParamAInput(v)
    \/ \E v \in SliderValues(controls.B) : ParamBInput(v)
    \/ ResetClick
    \/ \E cur \in Currencies : SelectCurrency(cur)
    \/ ThemeChange

UiSpec == Init /\ [][UiNext]_vars

(***************************************************************************)
(* The calculator in use together with the answers of the network to the   *)
(* startup refresh.                                                        *)
(***************************************************************************)
AppNext ==
    \/ UiNext
    \/ \E c \in Slots : FetchOk(c)
    \/ \E c \in Slots : EndpointFailed(c)
    \/ \E c \in Slots : AllFailed(c)
    \/ \E c \in Slots : RateReceived(c)

AppSpec == Init /\ [][AppNext]_vars

(***************************************************************************)
(* Properties                                                              *)
(***************************************************************************)
Triggers == {"startup", "click", "tick"}
Completions == {"success", "fallback"}

\* the step taken is invocation c's fallback branch
FallsBack(c) == cycles[c].status \in InFlight /\ cycles'[c].status = "fallback"

\* the step taken is invocation c's success branch
Succeeds(c) == cycles[c].status \in InFlight /\ cycles'[c].status = "success"

\* C1: a cycle whose endpoints all failed leaves, in the state right after
\* it completes, CURRENCY_RATE = FALLBACK_RATE, EUR_RATE = FALLBACK_EUR_RATE
\* and the fallback indicator shown, whatever the rates were before.
C1_FallbackResetsRates ==
    [][\A c \in Slots :
          FallsBack(c) =>
              /\ Len(cycles'[c].outcomes) = NumEndpoints
              /\ \A i \in Endpoints : cycles'[c].outcomes[i] = "fail"
              /\ CURRENCY_RATE' = FALLBACK_RATE
              /\ EUR_RATE' = FALLBACK_EUR_RATE
              /\ timestampDisplay'.text = "fallback"]_vars

\* a fallback has just overwritten rates that an earlier success had stored
C1_Witness ==
    /\ last.kind = "fallback"
    /\ last.live
    /\ lastUpdateTime # Null
    /\ CURRENCY_RATE = FALLBACK_RATE
    /\ EUR_RATE = FALLBACK_EUR_RATE

\* exactly one of the two rates read from the body is usable
OnlyUah(l) == l.uahRate # {} /\ l.eurRate = {}
OnlyEur(l) == l.eurRate # {} /\ l.uahRate = {}

\* C2 as stated, for the startup refresh, which starts from the constants
\* of the initial state: after its partial success the rate that was absent
\* has the value it had before the cycle.
C2_Original ==
    (last.kind = "success" /\ last.startup) =>
        /\ OnlyUah(last) => EUR_RATE = FALLBACK_EUR_RATE
        /\ OnlyEur(last) => CURRENCY_RATE = FALLBACK_RATE

\* C2 amended: on a partial success the rate that was present is stored,
\* the other rate keeps the value it had immediately before the step that
\* completes the cycle, the cycle counts as successful and the fallback
\* indicator is not shown after it.
C2_PartialSuccess ==
    [][\A c \in Slots :
          (Succeeds(c) /\ (OnlyUah(last') \/ OnlyEur(last'))) =>
              /\ last'.cycle = c
              /\ OnlyUah(last') =>
                    CURRENCY_RATE' = ValueOf(last'.uahRate) /\ EUR_RATE' = EUR_RATE
              /\ OnlyEur(last') =>
                    EUR_RATE' = ValueOf(last'.eurRate) /\ CURRENCY_RATE' = CURRENCY_RATE
              /\ timestampDisplay'.text = "lastUpdate"
              /\ lastUpdateTime' # Null]_vars

\* a partial success has stored UAH and kept an EUR rate that is not the constant
C2_Witness ==
    /\ last.kind = "success"
    /\ OnlyUah(last)
    /\ CURRENCY_RATE = ValueOf(last.uahRate)
    /\ EUR_RATE # FALLBACK_EUR_RATE
    /\ timestampDisplay.text = "lastUpdate"

\* C3: within one cycle the endpoints are requested in list order, one at
\* a time: endpoint k+1 only after endpoint k's outcome is known and is a
\* failure, and none after a success.
C3_SequentialEndpoints ==
    \A c \in Slots :
        LET r == cycles[c]
            outstanding == IF r.status \in InFlight THEN 1 ELSE 0
        IN  r.status # "idle" =>
              /\ Len(r.requested) \in Endpoints
              /\ \A i \in 1..Len(r.requested) : r.requested[i] = i
              /\ Len(r.requested) = Len(r.outcomes) + outstanding
              /\ \A i \in 1..Len(r.outcomes) :
                    /\ i < Len(r.requested) => r.outcomes[i] = "fail"
                    /\ r.outcomes[i] = "success" => r.status = "success"
              /\ r.status = "success" => r.outcomes[Len(r.outcomes)] = "success"
              /\ r.status \in InFlight => r.idx = Len(r.requested)

\* a cycle has gone to the second endpoint after the first failed, and stopped there
C3_Witness ==
    \E c \in Slots :
        /\ cycles[c].requested = <<1, 2>>
        /\ cycles[c].outcomes = <<"fail", "success">>

\* C4: at most one repeating refresh timer is active, in every reachable state.
C4_AtMostOneTimer ==
    /\ Cardinality(timers) <= 1
    /\ \A t \in timers : t.id = refreshTimer

\* the timer has been re-armed by a cycle that overlapped another one
C4_Witness ==
    /\ last.kind = "success"
    /\ refreshTimer = 2
    /\ Cardinality(timers) = 1
    /\ \E d \in Slots : d # last.cycle /\ cycles[d].status \in InFlight

\* C5 as stated: after any cycle finishes, successfully or in fallback,
\* another cycle is eventually started by the refresh timer.
C5_Original == (last.kind \in Completions) ~> (last.kind = "tick")

\* C5 amended: once a cycle has succeeded, after any cycle finishes
\* (successfully or in fallback) another cycle is eventually started by the
\* refresh timer; a failed cycle with no success before it arms nothing.
C5_TimerKeepsCycling ==
    /\ (last.kind \in Completions /\ lastUpdateTime # Null) ~> (last.kind = "tick")
    /\ [](lastUpdateTime = Null => timers = {})

\* the timer has started a cycle after a cycle ended in fallback
C5_Witness ==
    /\ last.kind = "tick"
    /\ lastUpdateTime # Null
    /\ \E d \in Slots : cycles[d].status = "fallback"

\* C6 as stated, for the startup refresh, which starts with no timer armed:
\* after it has failed the timer handle and the set of active timers are
\* what they were before the cycle.
C6_Original ==
    (last.kind = "fallback" /\ last.startup) => (refreshTimer = Null /\ timers = {})

\* C6 amended: a cycle in which every endpoint fails arms no timer and
\* cancels none: no step of it (its start, a failing endpoint, the fallback
\* branch) changes the timer handle or the set of active timers.
C6_FailedCycleSchedulesNothing ==
    [][(\A c \in Slots : ~Succeeds(c)) => UNCHANGED <<refreshTimer, timers>>]_vars

\* a cycle has ended in fallback with the timer of an earlier success still armed
C6_Witness ==
    /\ last.kind = "fallback"
    /\ refreshTimer # Null
    /\ timers = {[id |-> refreshTimer, interval |-> REFRESH_INTERVAL]}

\* C7: a cycle that ends in a partial or full success sets lastUpdateTime
\* to the current time, cancels the timer armed before, and arms a repeating
\* timer of 1,800,000 ms that calls the refresh; exactly one timer is
\* active right after.
C7_SuccessRearms ==
    [][\A c \in Slots :
          Succeeds(c) =>
              /\ lastUpdateTime' = now
              /\ refreshTimer' # Null
              /\ refreshTimer # Null => \A t \in timers' : t.id # refreshTimer
              /\ timers' = {[id |-> refreshTimer', interval |-> 1800000]}
              /\ Cardinality(timers') = 1]_vars

\* a later success has replaced the timer of an earlier one, at a later time
C7_Witness ==
    /\ last.kind = "success"
    /\ refreshTimer = 2
    /\ lastUpdateTime = MaxTime
    /\ timers = {[id |-> 2, interval |-> REFRESH_INTERVAL]}

\* C8: a refresh triggered while another cycle is in flight starts a cycle
\* of its own at the first endpoint; no step of one cycle changes another
\* cycle (none is cancelled, skipped or merged); each applies its own
\* outcome in the step in which it finishes.
C8_IndependentCycles ==
    [][/\ \A c \in Slots :
            (cycles[c].status \in InFlight /\ c # last'.cycle) => cycles'[c] = cycles[c]
       /\ last'.kind \in Triggers =>
            /\ cycles[last'.cycle].status \notin InFlight
            /\ cycles'[last'.cycle].status = "fetch"
            /\ cycles'[last'.cycle].idx = 1
            /\ cycles'[last'.cycle].requested = <<1>>
       /\ \A c \in Slots :
            /\ Succeeds(c) =>
                  /\ CURRENCY_RATE' = StoreRate(CURRENCY_RATE, last'.uahRate)
                  /\ EUR_RATE' = StoreRate(EUR_RATE, last'.eurRate)
            /\ FallsBack(c) =>
                  /\ CURRENCY_RATE' = FALLBACK_RATE
                  /\ EUR_RATE' = FALLBACK_EUR_RATE]_vars

\* two overlapping cycles have both finished, one in success and the other,
\* after it, in fallback
C8_Witness ==
    /\ cycles[1].status = "fallback"
    /\ cycles[2].status = "success"
    /\ last.kind = "fallback"
    /\ last.cycle = 1
    /\ last.live

\* C9: in every reachable state, if the fallback indicator is displayed both
\* rates are the fallback constants, and if a last-update timestamp is
\* displayed lastUpdateTime is set (and is the time displayed) and the rates
\* are the ones the successful cycle that displayed it left.
C9_DisplayConsistent ==
    /\ [](/\ timestampDisplay.text = "fallback" =>
                (CURRENCY_RATE = FALLBACK_RATE /\ EUR_RATE = FALLBACK_EUR_RATE)
          /\ timestampDisplay.text = "lastUpdate" =>
                /\ lastUpdateTime # Null
                /\ timestampDisplay.time = lastUpdateTime
                /\ exchangeRateDisplay = RateText(CURRENCY_RATE, EUR_RATE))
    /\ [][timestampDisplay'.text = "lastUpdate" =>
             \/ \E c \in Slots : Succeeds(c)
             \/ UNCHANGED <<CURRENCY_RATE, EUR_RATE, lastUpdateTime, timestampDisplay>>]_vars

\* the fallback indicator is displayed after overlapping cycles, one of
\* which had stored live rates
C9_Witness ==
    /\ timestampDisplay.text = "fallback"
    /\ cycles[2].status = "success"
    /\ cycles[1].status = "fallback"
    /\ lastUpdateTime # Null

\* C10: both conversion rates are strictly positive in every reachable
\* state (a missing, zero or negative rate is never stored), so no amount
\* is divided by zero in any currency.
C10_RatesPositive ==
    /\ CURRENCY_RATE > 0
    /\ EUR_RATE > 0
    /\ \A cur \in Currencies :
          LET shown == Rendered(currentMinutes, cur, CurrentConfig, CURRENCY_RATE, EUR_RATE)
          IN  shown.total.finite /\ shown.total.cents > 0 /\ shown.rate.finite
    /\ dom.total.finite

\* an endpoint whose body carried only rates that are not above zero has
\* been passed over and the cycle has moved on to the next endpoint
C10_Witness ==
    \E c \in Slots :
        /\ cycles[c].status = "fetch"
        /\ cycles[c].idx = 2
        /\ last.kind = "endpointFailed"
        /\ last.why = "nonpositive"
        /\ last.cycle = c
        /\ CURRENCY_RATE # FALLBACK_RATE

\* the kinds of failure of one endpoint
ErrorOutcomes == {"reject", "notok", "unparsable", "norates", "nonpositive"}

\* the step taken is a failure of the endpoint invocation c is waiting for
FailsEndpoint(c) ==
    /\ cycles[c].status \in InFlight
    /\ last'.kind \in {"endpointFailed", "fallback"}
    /\ last'.cycle = c

\* C11: every failure of an endpoint (rejected fetch, non-ok status,
\* unparsable body, body without rates) is absorbed: the cycle goes on to
\* the next endpoint, or, after the last endpoint, to the fallback branch;
\* and every cycle in flight eventually completes, in success or in
\* fallback, given that every request eventually resolves.
C11_ErrorsAbsorbed ==
    /\ [][\A c \in Slots :
             FailsEndpoint(c) =>
                 /\ last'.why \in ErrorOutcomes
                 /\ IF cycles[c].idx < NumEndpoints
                    THEN /\ cycles'[c].status = "fetch"
                         /\ cycles'[c].idx = cycles[c].idx + 1
                    ELSE cycles'[c].status = "fallback"]_vars
    /\ \A c \in Slots :
          (cycles[c].status \in InFlight) ~> (cycles[c].status \in Completions)

\* a cycle has absorbed a failure of its first endpoint and then, its last
\* endpoint returning a body that does not parse, has ended in fallback
C11_Witness ==
    \E c \in Slots :
        /\ cycles[c].status = "fallback"
        /\ cycles[c].outcomes = <<"fail", "fail">>
        /\ last.kind = "fallback"
        /\ last.cycle = c
        /\ last.why = "unparsable"

\* the step taken completes a refresh cycle
CompletesCycle == \E c \in Slots : Succeeds(c) \/ FallsBack(c)

\* C12: both rates, lastUpdateTime, the timer handle and the timers change
\* only in the step that completes a refresh cycle (success or fallback):
\* no listener of the page (duration, formula, parameter, base fee,
\* currency, reset, theme), no render and no failure of an endpoint that is
\* not the last of its cycle changes any of them.
C12_RatesChangeOnlyOnCompletion ==
    [][~CompletesCycle => UNCHANGED rateVars]_vars

\* the startup refresh has stored live rates and armed the timer, and the
\* page has since been put on another formula, parameter, base fee,
\* duration and currency
C12_Witness ==
    /\ lastUpdateTime # Null
    /\ timers # {}
    /\ CURRENCY_RATE = 40000
    /\ EUR_RATE = 920
    /\ currentFormula = "power"
    /\ paramA = FORMULAS["power"].A.max
    /\ baseFee = 0
    /\ currentMinutes = 5000
    /\ currentCurrency = "EUR"
    /\ dom.total.sym = "EUR"

\* the rates are the constants, no update is recorded, no timer is armed
Pristine ==
    /\ CURRENCY_RATE = FALLBACK_RATE
    /\ EUR_RATE = FALLBACK_EUR_RATE
    /\ lastUpdateTime = Null
    /\ refreshTimer = Null
    /\ timers = {}

\* C13: from the start of the process until the first successful response
\* is applied, the rates are the constants 37 and 0.85, lastUpdateTime is
\* absent and no timer is armed: the initial state is so, and every step
\* that is not the success branch of a cycle keeps it so.
C13_ConstantsUntilFirstSuccess ==
    /\ Pristine
    /\ [][(Pristine /\ \A c \in Slots : ~Succeeds(c)) => Pristine']_vars

\* no response has been applied yet: one cycle has ended in fallback, after
\* a failure of each endpoint, and a manual refresh is waiting for a body
C13_Witness ==
    /\ Pristine
    /\ \E c, d \in Slots :
          /\ cycles[c].status = "fallback"
          /\ cycles[d].status = "json"
          /\ cycles[d].idx = 2

\* v lies within the declared bounds b = [min, max, default]
InBounds(v, b) == b.min <= v /\ v <= b.max

\* C14: whatever the listeners of the page have done (formula change,
\* parameter sliders delivering values of their range, base fee, reset,
\* duration, currency), paramA and paramB lie within the bounds FORMULAS
\* declares for the formula that is selected.
C14_ParamsWithinBounds ==
    /\ InBounds(paramA, FORMULAS[currentFormula].A)
    /\ InBounds(paramB, FORMULAS[currentFormula].B)

\* after a switch to the logarithmic formula the sliders have delivered the
\* upper end of A's range and the lower end of B's
C14_Witness ==
    /\ currentFormula = "logarithmic"
    /\ paramA = FORMULAS["logarithmic"].A.max
    /\ paramB = FORMULAS["logarithmic"].B.min
    /\ controls.A.value = paramA
    /\ controls.B.value = paramB

\* C15: a change of the formula to f, from whatever formula and parameter
\* values, leaves paramA and paramB at the defaults FORMULAS declares for f
\* (and so does every step that changes the formula).
C15_FormulaSwitchSetsDefaults ==
    [][\A f \in DOMAIN FORMULAS :
          (FormulaChange(f) \/ (currentFormula' = f /\ currentFormula # f)) =>
              /\ currentFormula' = f
              /\ paramA' = FORMULAS[f].A.default
              /\ paramB' = FORMULAS[f].B.default]_vars

\* the power formula is selected with its defaults 2 and 0.6, and the
\* sliders carry its ranges
C15_Witness ==
    /\ currentFormula = "power"
    /\ paramA = 20000
    /\ paramB = 60000
    /\ controls.A.max = FORMULAS["power"].A.max
    /\ dom.formula = "power"

\* the durations the model evaluates the formulas at
Durations == {k * ChartStep : k \in 0..(ChartMax \div ChartStep)}

\* C16: for every duration, under the configuration in effect (every
\* formula, parameters within bounds, every base fee), calculatePrice
\* returns processingCost = minutes * rate, total = baseFee + processingCost
\* and total >= baseFee, the processing cost not being negative.
C16_TotalIsFeePlusCost ==
    \A minutes \in Durations :
        LET p == calculatePrice(minutes, CurrentConfig)
        IN  /\ p.processingCost = minutes * p.rate
            /\ p.total = baseFee * MoneyScale + p.processingCost
            /\ p.processingCost >= 0
            /\ p.total >= baseFee * MoneyScale

\* the logarithmic formula with the smallest A and the largest B at 5000
\* minutes: the rate is the floor 0.005 and the cost 25 dollars on top of
\* the base fee
C16_Witness ==
    /\ currentFormula = "logarithmic"
    /\ paramA = FORMULAS["logarithmic"].A.min
    /\ paramB = FORMULAS["logarithmic"].B.max
    /\ currentMinutes = 5000
    /\ calculatePrice(currentMinutes, CurrentConfig).rate = MIN_LOG_RATE
    /\ calculatePrice(currentMinutes, CurrentConfig).total = (baseFee + 25) * MoneyScale

\* C17: at duration 0, under the configuration in effect, calculatePrice
\* returns rate 0, processingCost 0, avgPerMinute 0 and total = baseFee.
C17_ZeroDuration ==
    LET p == calculatePrice(0, CurrentConfig)
    IN  /\ p.rate = 0
        /\ p.processingCost = 0
        /\ p.avgPerMinute = 0
        /\ p.total = baseFee * MoneyScale

\* duration 0 is selected under the power formula, whose function would
\* return A at 0, and the page shows a processing cost of 0
C17_Witness ==
    /\ currentMinutes = 0
    /\ currentFormula = "power"
    /\ Calculate(currentFormula, 0, paramA, paramB) = paramA
    /\ paramA > 0
    /\ dom.minutes = 0
    /\ dom.processingCost.cents = 0
    /\ dom.rate.cents = 0
    /\ dom.avg.cents = 0

\* every point of the curve is (duration, calculatePrice(duration).total) under cfg
SampledUnder(curve, cfg) ==
    \A k \in DOMAIN curve : curve[k].y = calculatePrice(curve[k].x, cfg).total

\* C18: the curve of the chart has the durations 0, 50, ..., 5000 in this
\* order (101 points, strictly increasing, multiples of the step, the last
\* one 5000); whenever the curve is sampled anew each duration is paired
\* with calculatePrice(duration).total of the configuration in effect; and
\* sampling again in the same configuration gives the same curve.
C18_CurveSampling ==
    /\ [](priceChart.created =>
            LET curve == priceChart.curve
            IN  /\ Len(curve) = ChartMax \div ChartStep + 1
                /\ curve[1].x = 0
                /\ curve[Len(curve)].x = ChartMax
                /\ \A k \in DOMAIN curve : curve[k].x = (k - 1) * ChartStep
                /\ \A k \in 1..(Len(curve) - 1) : curve[k].x < curve[k + 1].x)
    /\ [][priceChart'.curve # priceChart.curve =>
             SampledUnder(priceChart'.curve, CurrentConfig')]_vars
    /\ [][(/\ priceChart.created
           /\ SampledUnder(priceChart.curve, CurrentConfig)
           /\ CurrentConfig' = CurrentConfig)
          => priceChart'.curve = priceChart.curve]_vars

\* the curve has been sampled under the power formula with the largest A:
\* 101 points, the last one at 5000 minutes
C18_Witness ==
    /\ priceChart.created
    /\ currentFormula = "power"
    /\ paramA = FORMULAS["power"].A.max
    /\ Len(priceChart.curve) = 101
    /\ priceChart.curve[101] = [x |-> 5000, y |-> calculatePrice(5000, CurrentConfig).total]
    /\ priceChart.curve[1] = [x |-> 0, y |-> baseFee * MoneyScale]

\* the amount v (in 1/MoneyScale dollar) in the currency, in cents
Converted(v, currency) ==
    CASE currency = "USD" -> ToFixed2(v)
      [] currency = "UAH" -> ToFixed2(MulDiv(v, CURRENCY_RATE, RateScale))
      [] currency = "EUR" -> ToFixed2(MulDiv(v, RateScale, EUR_RATE))

\* C19: every amount the page shows is the USD amount converted with the
\* rates in effect in that very state (unchanged for USD, multiplied by the
\* UAH rate, divided by the EUR rate): after the step in which a cycle
\* stores a new rate the amounts are those of the new rate.
C19_DisplayUsesCurrentRates ==
    appReady =>
        LET p == calculatePrice(currentMinutes, CurrentConfig)
        IN  /\ dom.total.sym = currentCurrency
            /\ dom.total.finite
            /\ dom.total.cents = Converted(p.total, currentCurrency)
            /\ dom.baseFee.cents = Converted(baseFee * MoneyScale, currentCurrency)
            /\ dom.processingCost.cents = Converted(p.processingCost, currentCurrency)
            /\ dom.rate.cents = Converted(p.rate, currentCurrency)

\* the startup refresh has stored the rates 41.254 and 0.92, and the page
\* shows euros for a duration and a base fee that are not those of the start
C19_Witness ==
    /\ lastUpdateTime # Null
    /\ EUR_RATE = 920
    /\ currentCurrency = "EUR"
    /\ currentMinutes = 5000
    /\ baseFee = 0
    /\ dom.total.cents = ToFixed2(MulDiv(calculatePrice(5000, CurrentConfig).total, 1000, 920))
    /\ dom.total.cents # ToFixed2(MulDiv(calculatePrice(5000, CurrentConfig).total, 1000, 850))

\* C20: with the chart created, its current-position dataset is the single
\* point (currentMinutes, calculatePrice(currentMinutes).total) of the
\* configuration in effect, after every change of the duration, of a
\* parameter or of the base fee.
C20_CurrentPositionFollows ==
    priceChart.created =>
        priceChart.current =
            <<[x |-> currentMinutes, y |-> calculatePrice(currentMinutes, CurrentConfig).total]>>

\* the duration, the base fee and parameter A have all been changed, and
\* the marker sits at 5000 minutes
C20_Witness ==
    /\ priceChart.created
    /\ currentMinutes = 5000
    /\ baseFee = 0
    /\ paramA = FORMULAS[currentFormula].A.max
    /\ priceChart.current[1].x = 5000
    /\ priceChart.current[1].y = 5000 * calculateRatePerMinute(5000, CurrentConfig)

\* C21: under the logarithmic formula, for every duration above 0 and the
\* parameters in effect (within the formula's bounds), the rate per minute
\* is max(0.005, A - B ln x), so it is never below 0.005.
C21_LogarithmicFloor ==
    currentFormula = "logarithmic" =>
        \A x \in Durations \ {0} :
            LET rate == calculateRatePerMinute(x, CurrentConfig)
                curve == LogCurve(x, paramA, paramB)
            IN  /\ rate >= MIN_LOG_RATE
                /\ rate = IF curve >= MIN_LOG_RATE THEN curve ELSE MIN_LOG_RATE

\* the logarithmic formula with the smallest A and the largest B: at 5000
\* minutes A - B ln x is negative and the rate shown is 0.005, shown as 0.01
C21_Witness ==
    /\ currentFormula = "logarithmic"
    /\ paramA = FORMULAS["logarithmic"].A.min
    /\ paramB = FORMULAS["logarithmic"].B.max
    /\ currentMinutes = 5000
    /\ currentCurrency = "USD"
    /\ LogCurve(5000, paramA, paramB) < 0
    /\ calculateRatePerMinute(5000, CurrentConfig) = MIN_LOG_RATE
    /\ dom.rate.cents = 1

\* C22 as stated: with the chart created, its curve is the sampling of
\* calculatePrice over 0, 50, ..., 5000 under the configuration in effect
\* (baseFee, formula, paramA, paramB), and the current-position point, when
\* its duration is one of the sampled ones, is a point of the curve.
C22_Original ==
    priceChart.created =>
        /\ Len(priceChart.curve) = ChartMax \div ChartStep + 1
        /\ \A k \in DOMAIN priceChart.curve : priceChart.curve[k].x = (k - 1) * ChartStep
        /\ SampledUnder(priceChart.curve, CurrentConfig)
        /\ \E k \in DOMAIN priceChart.curve : priceChart.curve[k] = priceChart.current[1]

\* C23 as stated: the refresh button carries the loading state exactly
\* while at least one refresh cycle is in flight, overlapping cycles
\* included.
C23_Original ==
    loading <=> \E c \in Slots : cycles[c].status \in InFlight

\* C24: the reset leaves baseFee = 10, the hyperbolic formula and its
\* declared default parameters 0.03 and 0.0005, which is the configuration
\* of the initial state, and changes neither the duration, nor the
\* currency, nor the rates, lastUpdateTime, the timer handle or the timers.
C24_ResetRestoresDefaults ==
    [][ResetClick =>
          /\ baseFee' = 10
          /\ currentFormula' = "hyperbolic"
          /\ paramA' = FORMULAS["hyperbolic"].A.default
          /\ paramB' = FORMULAS["hyperbolic"].B.default
          /\ CurrentConfig' = Config("hyperbolic", 300, 50, 10)
          /\ UNCHANGED <<currentMinutes, currentCurrency, rateVars>>]_vars

\* the configuration is that of the start, the sliders carry the ranges of
\* the hyperbolic formula and the curve is sampled under it, while the
\* duration, the currency and the rates are not those of the start
C24_Witness ==
    /\ CurrentConfig = Config("hyperbolic", 300, 50, 10)
    /\ controls.A.value = 300
    /\ priceChart.created
    /\ SampledUnder(priceChart.curve, CurrentConfig)
    /\ currentMinutes = 5000
    /\ currentCurrency = "EUR"
    /\ lastUpdateTime # Null
    /\ timers # {}
    /\ CURRENCY_RATE = 41254
    /\ EUR_RATE = 923

=============================================================================
